---- MODULE Spec2Model ----
(***************************************************************************)
(* Model of the iguana-workflow job orchestration engine                   *)
(* (src/src/workflow/job.rs, src/src/workflow.rs, src/src/main.rs).        *)
(*                                                                         *)
(* Rust strings are modelled as sequences of one-character strings, so     *)
(* that `image.len() == 0` and `v.split(":")` are computed, not assumed.   *)
(* A job is named by its position in the ordered job mapping (the keys of  *)
(* a LinkedHashMap are distinct, so name and position determine each       *)
(* other); a name in `needs` is the position of a job of the workflow,     *)
(* which may be the job itself or a job declared after it.                 *)
(*                                                                         *)
(* The environment handed to a container has no influence on the control   *)
(* flow of a run.  Spec leaves it out; SpecEnv models how do_job and        *)
(* run_container compute it for the containers of one job.                 *)
(***************************************************************************)
EXTENDS Naturals, Sequences, FiniteSets, TLC

\* ---------------------------------------------------------------------------
\* Bounds of the model
\* ---------------------------------------------------------------------------
\* Largest size of a workflow with its options.  Each job counts for one, and
\* so does each optional setting: a `needs` entry, a volume,
\* `continue_on_error: true`, an empty image, and each option that is set.  A
\* service counts for two: it is a container of its own, with its name and
\* its image.
MaxSize == 6

\* Number of services of the job whose environments SpecEnv computes.
MaxEnvServices == 2

\* ---------------------------------------------------------------------------
\* Data model (workflow.rs)
\* ---------------------------------------------------------------------------
\* Sequences over S of length at most n.
SeqsUpTo(S, n) == UNION {[1..k -> S] : k \in 0..n}

\* Volume specifications `source:target`; the last one has no separator.
VolumeSpecs == <<<<"v", ":", "m">>, <<"w", "x", ":", "n">>, <<"y">>>>

\* Container.volumes: the first k of the volume specifications above, which
\* repeat from the fourth on.
Volumes(k) == [i \in 1..k |-> VolumeSpecs[((i - 1) % Len(VolumeSpecs)) + 1]]

\* The lists of volumes of at most b entries.
VolumeChoices(b) == {Volumes(k) : k \in 0..b}

\* The image of the n-th service of a job: n characters, so distinct
\* services of a job carry distinct images.
ServiceImage(n) == [i \in 1..n |-> "s"]

\* Image references of a main container: empty, or a one-character name.
Images == {<<>>, <<"i">>}

\* struct Container { image, env, volumes }
Container(image, volumes) == [image |-> image, volumes |-> volumes]

\* Number of settings of a sequence of services: two per service and one per
\* volume of a service.
RECURSIVE ServicesSize(_)
ServicesSize(svcs) ==
    IF svcs = <<>> THEN 0
    ELSE 2 + Len(Head(svcs).container.volumes) + ServicesSize(Tail(svcs))

\* The services of a job in the order in which its HashMap iterates them: k
\* services named 1..k, in any order (the order depends on the hash seed of
\* the process), with at most b settings.
ServiceChoices(b) ==
    UNION {
      { s \in [1..k -> { [name |-> n, container |-> Container(ServiceImage(n), vl)] :
                           n \in 1..k, vl \in VolumeChoices(b - 2 * k) }] :
            /\ \A i, j \in 1..k : i # j => s[i].name # s[j].name
            /\ ServicesSize(s) <= b } :
      k \in 0..(b \div 2) }

\* Job.needs: at most b names of jobs of a workflow of n jobs, in any order,
\* none of them twice.
NeedsChoices(n, b) ==
    {nd \in SeqsUpTo(1..n, IF b < n THEN b ELSE n) :
        \A i, j \in 1..Len(nd) : i # j => nd[i] # nd[j]}

\* Number of settings of a job.
JobSize(job) ==
    (IF job.container.image = <<>> THEN 1 ELSE 0)
    + (IF job.continue_on_error THEN 1 ELSE 0)
    + Len(job.needs) + ServicesSize(job.services) + Len(job.container.volumes)

\* struct Job { container, services, needs, steps, continue_on_error }: the
\* jobs with at most b settings in a workflow of n jobs.  `needs` names jobs
\* of the workflow (a later job has no status yet when the name is looked
\* up, as a name no job carries has none).  `needs: None` and
\* `services: None` behave as the empty list and the empty map, and are
\* modelled by them; `steps` is never read by the engine.
JobChoices(n, b) ==
    UNION { UNION { UNION {
      { [container |-> Container(f[1], vl), services |-> sv, needs |-> nd,
         continue_on_error |-> f[2]] :
          f \in { g \in Images \X BOOLEAN :
                    (IF g[1] = <<>> THEN 1 ELSE 0) + (IF g[2] THEN 1 ELSE 0)
                      <= b - Len(nd) - ServicesSize(sv) - Len(vl) } } :
        vl \in VolumeChoices(b - Len(nd) - ServicesSize(sv)) } :
        sv \in ServiceChoices(b - Len(nd)) } :
        nd \in NeedsChoices(n, b) }

\* The jobs of exactly s settings in a workflow of n jobs.
JobsOfSize(n, s) == {j \in JobChoices(n, s) : JobSize(j) = s}

\* Workflow.jobs, a LinkedHashMap<String, Job> in declaration order: the
\* sequences of k jobs, of a workflow of n jobs, with at most b settings in
\* total.
RECURSIVE JobsChoices(_, _, _)
JobsChoices(k, n, b) ==
    IF k = 0 THEN {<<>>}
    ELSE UNION { { <<j>> \o rest : j \in JobsOfSize(n, s),
                                  rest \in JobsChoices(k - 1, n, b - s) } :
                 s \in 0..b }

\* Number of settings of the options.
OptionsSize(o) ==
    (IF o.dry_run THEN 1 ELSE 0) + (IF o.debug THEN 1 ELSE 0)
    + (IF o.privileged THEN 1 ELSE 0)

\* struct WorkflowOptions { dry_run, debug, privileged }
WorkflowOptions == [dry_run : BOOLEAN, debug : BOOLEAN, privileged : BOOLEAN]

\* enum JobStatus
JobStatus == {"NoStatus", "Skipped", "Success", "Failed"}

\* ---------------------------------------------------------------------------
\* State
\* ---------------------------------------------------------------------------
VARIABLES
    jobs,          \* Workflow.jobs: the jobs in declaration order (read-only)
    opts,          \* WorkflowOptions (read-only)
    pc,            \* the statement the run is at
    cur,           \* position of the job the `for` of do_jobs is at
    jobs_status,   \* do_jobs: HashMap<String, JobStatus>
    services_ok,   \* do_job: services_ok
    failed,        \* the containers of the job at hand an error has been logged
                   \* for by do_job, clean_job or do_jobs, and why
    job_result,    \* the Result of do_job once it has returned: "Ok", or its error
    si,            \* position of `services.iter()` in do_job and in clean_job
    is_service,    \* run_container: is_service
    vi,            \* run_container: position in container.volumes
    log,           \* the runtime invocations built so far, in order
    calls,         \* the calls of do_job and clean_job made so far, in order
    last,          \* what became of the last command built for the job at hand
    ret,           \* what do_workflow returned, once it has returned
    env_inherited, \* do_jobs, do_job: env / env_inherited (read-only)
    container_env, \* Container.env of the main container and of the services
    env,           \* do_job: the local `env` handed to run_container last
    run_env        \* the environments and `--env` arguments of the runs so far

vars == <<jobs, opts, pc, cur, jobs_status, services_ok, failed, job_result, si,
          is_service, vi, log, calls, last, ret,
          env_inherited, container_env, env, run_env>>

\* The inputs of the run.
input == <<jobs, opts>>
\* The locals of do_job.
do_job_vars == <<services_ok, failed, job_result, si>>
\* The locals of run_container.
run_vars == <<is_service, vi>>
\* What the run has done to the runtime.
runtime == <<log, last>>
\* The environments.
env_vars == <<env_inherited, container_env, env, run_env>>

\* Option<HashMap<String, String>>
None == [some |-> FALSE, map |-> <<>>]
Some(map) == [some |-> TRUE, map |-> map]

\* The job the loop of do_jobs is at.
Job == jobs[cur]

\* HashMap::insert
Insert(map, k, v) == (k :> v) @@ map

\* The value no Result carries yet.
Running == [tag |-> "Running", status |-> <<>>, err |-> "none"]
\* Ok(jobs_status) of do_jobs, which do_workflow turns into Ok(()).
Ok(status) == [tag |-> "Ok", status |-> status, err |-> "none"]
\* Err(e): no status map comes with it.
Err(e) == [tag |-> "Err", status |-> <<>>, err |-> e]

\* main: exit(1) when do_workflow returned an error, exit(0) otherwise.
ExitCode == IF ret.tag = "Err" THEN 1 ELSE 0

Init ==
    /\ \E o \in WorkflowOptions :
         /\ opts = o
         /\ \E n \in 0..(MaxSize - OptionsSize(o)) :
              jobs \in JobsChoices(n, n, MaxSize - OptionsSize(o) - n)
    /\ pc = "do_workflow"
    /\ cur = 1
    /\ jobs_status = <<>>
    /\ services_ok = TRUE
    /\ failed = {}
    /\ job_result = "none"
    /\ si = 1
    /\ is_service = FALSE
    /\ vi = 1
    /\ log = <<>>
    /\ calls = <<>>
    /\ last = "none"
    /\ ret = Running
    /\ env_inherited = None
    /\ container_env = [main |-> None, services |-> <<>>]
    /\ env = <<>>
    /\ run_env = <<>>

\* ---------------------------------------------------------------------------
\* Container runtime adapter
\* ---------------------------------------------------------------------------
\* What can become of a runtime command that is executed: it runs and exits
\* with success, it runs and exits with a failure status, or it cannot be
\* launched.
Outcomes == {"success", "exit_failure", "launch_error"}

\* PossibleOutcomes as they would be if the commands were executed under
\* dry_run too.
PossibleOutcomesDespiteDryRun == Outcomes

\* The outcomes a command built now can have: none under dry_run, where it is
\* not executed.
PossibleOutcomes == IF opts.dry_run THEN {"not_run"} ELSE Outcomes

\* Command::status(): Err when the command could not be launched, Ok(exit
\* status) otherwise, whatever the exit status.
CommandStatus(outcome) == IF outcome = "launch_error" THEN "Err" ELSE "Ok"

\* `if !dry_run { if let Err(e) = cmd.status() { return Err(..) } } Ok(())`
Execute(dry_run, outcome) ==
    IF ~dry_run
    THEN IF CommandStatus(outcome) = "Err" THEN "Err" ELSE "Ok"
    ELSE "Ok"

\* The main container of a job, where the name of a service is expected.
Main == 0

\* One runtime invocation as it is built: the job it is built for, the
\* container of the job it is built for (the name of a service, or Main), the
\* operation, and the image, container or volume it names.  The command line
\* follows from these, see CommandLine.
Invocation(op, target, container) ==
    [job |-> cur, container |-> container, op |-> op, target |-> target]

\* prepare_image: podman image pull --tls-verify=false -- image
PullInvocation(image, container) == Invocation("pull", image, container)

\* stop_container: podman container stop --ignore -- name
StopInvocation(name, container) == Invocation("stop", name, container)

\* clean_image: podman image rm --force -- image
RemoveInvocation(image, container) == Invocation("rm", image, container)

\* The part of a volume specification before the first ":"
\* (`v.split(":").take(1)`).
RECURSIVE VolumeSource(_)
VolumeSource(v) ==
    IF v = <<>> THEN <<>>
    ELSE IF Head(v) = ":" THEN <<>>
    ELSE <<Head(v)>> \o VolumeSource(Tail(v))

\* run_container: podman volume create src
VolumeInvocation(v, container) == Invocation("volume", VolumeSource(v), container)

\* run_container: podman run ... -- image
RunInvocation(container, name) == Invocation("run", container.image, name)

\* run_container: the flags of `podman run`, in the order they are added,
\* with one --volume argument for each volume created.
RunFlags(volumes, service, o) ==
    <<"run", "--network=host", "--annotation=iguana=true", "--env=iguana=true",
      "--mount=type=bind,source=/iguana,target=/iguana">>
    \o (IF o.privileged THEN <<"--volume=/dev:/dev", "--privileged">> ELSE <<>>)
    \o [i \in 1..Len(volumes) |-> "--volume"]
    \o (IF ~service THEN <<"--tty", "--interactive">> ELSE <<"--detach">>)
    \o (IF ~o.debug THEN <<"--rm">> ELSE <<>>)
    \o <<"--">>

\* The arguments podman is given for an invocation, but for the name that
\* ends them.
CommandLine(op, volumes, service, o) ==
    CASE op = "pull" -> <<"image", "pull", "--tls-verify=false", "--">>
      [] op = "rm" -> <<"image", "rm", "--force", "--">>
      [] op = "stop" -> <<"container", "stop", "--ignore", "--">>
      [] op = "volume" -> <<"volume", "create">>
      [] op = "run" -> RunFlags(volumes, service, o)

\* ---------------------------------------------------------------------------
\* do_workflow and the loop of do_jobs
\* DoWorkflow as it would be without the check for an empty job mapping.
DoWorkflowUnchecked ==
    /\ pc = "do_workflow"
    /\ pc' = "for_jobs"
    /\ ret' = ret
    /\ UNCHANGED <<input, env_vars, cur, jobs_status, do_job_vars, run_vars, runtime, calls>>

\* ---------------------------------------------------------------------------
\* do_workflow, after parsing: an empty job mapping is an error, otherwise
\* do_jobs is called with an empty status map.
DoWorkflow ==
    /\ pc = "do_workflow"
    /\ IF jobs = <<>>
       THEN /\ ret' = Err("no_jobs")
            /\ pc' = "exit"
       ELSE /\ pc' = "for_jobs"
            /\ ret' = ret
    /\ UNCHANGED <<input, env_vars, cur, jobs_status, do_job_vars, run_vars, runtime, calls>>

\* do_jobs: the loop takes the next job and records NoStatus for it.
VisitJob ==
    /\ pc = "for_jobs"
    /\ cur <= Len(jobs)
    /\ jobs_status' = Insert(jobs_status, cur, "NoStatus")
    /\ last' = "none"
    /\ failed' = {}
    /\ pc' = "check_needs"
    /\ UNCHANGED <<input, env_vars, cur, services_ok, job_result, si, run_vars, log,
                   calls, ret>>

\* Skip as it would be if the loop over `needs` ended after its first name.
SkipFirstOnly(needs, status) ==
    /\ needs # <<>>
    /\ Head(needs) \in DOMAIN status
    /\ status[Head(needs)] = "Failed"

\* Skip as it would be if a name without status ended the loop with skip.
RECURSIVE SkipOnMissing(_, _)
SkipOnMissing(needs, status) ==
    IF needs = <<>> THEN FALSE
    ELSE IF Head(needs) \notin DOMAIN status THEN TRUE
    ELSE IF status[Head(needs)] = "Failed" THEN TRUE
    ELSE SkipOnMissing(Tail(needs), status)

\* Skip as it would be if a need that was skipped itself counted as failed.
RECURSIVE SkipPropagates(_, _)
SkipPropagates(needs, status) ==
    IF needs = <<>> THEN FALSE
    ELSE IF Head(needs) \notin DOMAIN status THEN SkipPropagates(Tail(needs), status)
    ELSE IF status[Head(needs)] \in {"Failed", "Skipped"} THEN TRUE
    ELSE SkipPropagates(Tail(needs), status)

\* do_jobs: the loop over `needs`: a name without status is passed over with
\* a warning, the first name whose status is Failed ends the loop with skip.
RECURSIVE Skip(_, _)
Skip(needs, status) ==
    IF needs = <<>> THEN FALSE
    ELSE IF Head(needs) \notin DOMAIN status THEN Skip(Tail(needs), status)
    ELSE IF status[Head(needs)] = "Failed" THEN TRUE
    ELSE Skip(Tail(needs), status)

\* CheckNeeds as it would be without the `continue` after Skipped is
\* recorded.
CheckNeedsNoContinue ==
    /\ pc = "check_needs"
    /\ jobs_status' = (IF Skip(Job.needs, jobs_status)
                       THEN Insert(jobs_status, cur, "Skipped")
                       ELSE jobs_status)
    /\ calls' = Append(calls, <<"do_job", cur>>)
    /\ pc' = "do_job"
    /\ UNCHANGED <<input, env_vars, cur, do_job_vars, run_vars, runtime, ret>>

\* do_jobs: a job to skip is recorded Skipped and the loop continues; any
\* other job is handed to do_job.
CheckNeeds ==
    /\ pc = "check_needs"
    /\ IF Skip(Job.needs, jobs_status)
       THEN /\ jobs_status' = Insert(jobs_status, cur, "Skipped")
            /\ cur' = cur + 1
            /\ pc' = "for_jobs"
            /\ calls' = calls
       ELSE /\ calls' = Append(calls, <<"do_job", cur>>)
            /\ pc' = "do_job"
            /\ UNCHANGED <<jobs_status, cur>>
    /\ UNCHANGED <<input, env_vars, do_job_vars, run_vars, runtime, ret>>

\* do_jobs: after the last job the status map is returned, and do_workflow
\* returns Ok(()).
ReturnStatus ==
    /\ pc = "for_jobs"
    /\ cur > Len(jobs)
    /\ ret' = Ok(jobs_status)
    /\ pc' = "exit"
    /\ UNCHANGED <<input, env_vars, cur, jobs_status, do_job_vars, run_vars, runtime, calls>>

\* ---------------------------------------------------------------------------
\* do_job
\* ---------------------------------------------------------------------------
\* do_job: a job without image fails at once; otherwise the services come
\* first.
DoJob ==
    /\ pc = "do_job"
    /\ IF Len(Job.container.image) = 0
       THEN /\ job_result' = "no_image"
            /\ pc' = "job_done"
       ELSE /\ pc' = "services"
            /\ job_result' = job_result
    /\ services_ok' = TRUE
    /\ failed' = {}
    /\ si' = 1
    /\ UNCHANGED <<input, env_vars, cur, jobs_status, run_vars, runtime, calls, ret>>

\* do_job: the image of the next service is pulled; if that fails the error
\* is logged, services_ok is cleared and the loop continues with the next
\* service; otherwise the container of the service is run.
PrepareService ==
    /\ pc = "services"
    /\ si <= Len(Job.services)
    /\ \E outcome \in PossibleOutcomes :
         /\ log' = Append(log, PullInvocation(Job.services[si].container.image, Job.services[si].name))
         /\ last' = outcome
         /\ IF Execute(opts.dry_run, outcome) = "Err"
            THEN /\ services_ok' = FALSE
                 /\ failed' = failed \cup {<<Job.services[si].name, "preparation">>}
                 /\ si' = si + 1
                 /\ pc' = pc
                 /\ UNCHANGED run_vars
            ELSE /\ is_service' = TRUE
                 /\ vi' = 1
                 /\ pc' = "run_container"
                 /\ UNCHANGED <<services_ok, failed, si>>
    /\ UNCHANGED <<input, env_vars, cur, jobs_status, job_result, calls, ret>>

\* do_job: after the services, a job with a failed service fails; otherwise
\* the main container is next.
ServicesDone ==
    /\ pc = "services"
    /\ si > Len(Job.services)
    /\ IF ~services_ok
       THEN /\ job_result' = "service_failed"
            /\ pc' = "job_done"
       ELSE /\ pc' = "main_image"
            /\ job_result' = job_result
    /\ UNCHANGED <<input, env_vars, cur, jobs_status, services_ok, failed, si, run_vars,
                   runtime, calls, ret>>

\* do_job: the main image is pulled; if that fails the job fails, otherwise
\* the main container is run.
PrepareMain ==
    /\ pc = "main_image"
    /\ \E outcome \in PossibleOutcomes :
         /\ log' = Append(log, PullInvocation(Job.container.image, Main))
         /\ last' = outcome
         /\ IF Execute(opts.dry_run, outcome) = "Err"
            THEN /\ job_result' = "preparation_failed"
                 /\ pc' = "job_done"
                 /\ UNCHANGED run_vars
            ELSE /\ is_service' = FALSE
                 /\ vi' = 1
                 /\ pc' = "run_container"
                 /\ job_result' = job_result
    /\ UNCHANGED <<input, env_vars, cur, jobs_status, services_ok, failed, si, calls, ret>>

\* ---------------------------------------------------------------------------
\* run_container
\* ---------------------------------------------------------------------------
\* The container run_container was called with, and its name.
RunTarget == IF is_service THEN Job.services[si].container ELSE Job.container
\* RunName as it would be if do_job ran its services as it runs the main
\* container.
RunNameAlwaysMain == Main
RunName == IF is_service THEN Job.services[si].name ELSE Main

\* RunReturns as it would be if a service that did not start left services_ok
\* as it is.
RunReturnsKeepingOk(result) ==
    /\ IF is_service
       THEN /\ services_ok' = services_ok
            /\ failed' = (IF result = "Ok" THEN failed
                          ELSE failed \cup {<<Job.services[si].name, "start">>})
            /\ si' = si + 1
            /\ pc' = "services"
            /\ job_result' = job_result
       ELSE /\ job_result' = (IF result = "Ok" THEN "Ok" ELSE "start_failed")
            /\ pc' = "job_done"
            /\ UNCHANGED <<services_ok, failed, si>>
    /\ is_service' = FALSE
    /\ vi' = 1

\* do_job: what follows the return of run_container: a service that did not
\* start has its error logged and clears services_ok, and the loop goes on
\* either way; the result for the main container is the result of the job.
RunReturns(result) ==
    /\ IF is_service
       THEN /\ services_ok' = (services_ok /\ result = "Ok")
            /\ failed' = (IF result = "Ok" THEN failed
                          ELSE failed \cup {<<Job.services[si].name, "start">>})
            /\ si' = si + 1
            /\ pc' = "services"
            /\ job_result' = job_result
       ELSE /\ job_result' = (IF result = "Ok" THEN "Ok" ELSE "start_failed")
            /\ pc' = "job_done"
            /\ UNCHANGED <<services_ok, failed, si>>
    /\ is_service' = FALSE
    /\ vi' = 1

\* run_container: the next declared volume is created; a failure returns the
\* error to do_job.
CreateVolume ==
    /\ pc = "run_container"
    /\ vi <= Len(RunTarget.volumes)
    /\ \E outcome \in PossibleOutcomes :
         /\ log' = Append(log, VolumeInvocation(RunTarget.volumes[vi], RunName))
         /\ last' = outcome
         /\ IF Execute(opts.dry_run, outcome) = "Err"
            THEN RunReturns("Err")
            ELSE /\ vi' = vi + 1
                 /\ UNCHANGED <<pc, do_job_vars, is_service>>
    /\ UNCHANGED <<input, env_vars, cur, jobs_status, calls, ret>>

\* run_container: after the volumes the container is run, attached for the
\* main container and detached for a service, and the result goes to do_job.
RunContainer ==
    /\ pc = "run_container"
    /\ vi > Len(RunTarget.volumes)
    /\ \E outcome \in PossibleOutcomes :
         /\ log' = Append(log, RunInvocation(RunTarget, RunName))
         /\ last' = outcome
         /\ RunReturns(Execute(opts.dry_run, outcome))
    /\ UNCHANGED <<input, env_vars, cur, jobs_status, calls, ret>>

\* ---------------------------------------------------------------------------
\* do_jobs after do_job, and clean_job
\* ---------------------------------------------------------------------------
\* do_jobs: the status recorded for a Result of do_job.
StatusOf(result) == IF result = "Ok" THEN "Success" ELSE "Failed"

\* Aborts as it would be if continue_on_error were read the wrong way round.
AbortsInverted(job, result) == result # "Ok" /\ job.continue_on_error

\* Aborts as it would be if continue_on_error were not read at all.
AbortsAlways(job, result) == result # "Ok"

\* do_jobs: whether a Result of do_job for a job ends the run.
Aborts(job, result) == result # "Ok" /\ ~job.continue_on_error

\* do_jobs: the result of do_job is recorded; a failure of a job that is not
\* continue_on_error returns the error, anything else goes on to clean_job.
JobDone ==
    /\ pc = "job_done"
    /\ jobs_status' = Insert(jobs_status, cur, StatusOf(job_result))
    /\ IF Aborts(Job, job_result)
       THEN /\ ret' = Err(job_result)
            /\ pc' = "exit"
            /\ calls' = calls
       ELSE /\ calls' = Append(calls, <<"clean_job", cur>>)
            /\ pc' = "clean_job"
            /\ ret' = ret
    /\ job_result' = "none"
    /\ services_ok' = TRUE
    /\ failed' = {}
    /\ si' = 1
    /\ UNCHANGED <<input, env_vars, cur, run_vars, runtime>>

\* clean_job: the container of the next service is stopped; a failure is
\* logged.
StopService ==
    /\ pc = "clean_job"
    /\ si <= Len(Job.services)
    /\ \E outcome \in PossibleOutcomes :
         /\ log' = Append(log, StopInvocation(Job.services[si].container.image, Job.services[si].name))
         /\ last' = outcome
         /\ failed' = (IF Execute(opts.dry_run, outcome) = "Err"
                       THEN failed \cup {<<Job.services[si].name, "stop">>}
                       ELSE failed)
    /\ pc' = "clean_service_image"
    /\ UNCHANGED <<input, env_vars, cur, jobs_status, services_ok, job_result, si,
                   run_vars, calls, ret>>

\* CleanImage as it would be without the early return under debug.
CleanImageDespiteDebug(image, container) ==
    \E outcome \in PossibleOutcomes :
        /\ log' = Append(log, RemoveInvocation(image, container))
        /\ last' = outcome

\* The errors logged so far and the one logged for `name` if the clean_image
\* whose command, if it built one, had the outcome `outcome` returned an error.
CleanFailed(name, outcome) ==
    IF ~opts.debug /\ Execute(opts.dry_run, outcome) = "Err"
    THEN failed \cup {<<name, "cleanup">>}
    ELSE failed

\* clean_image: nothing is built under debug; otherwise the image is removed.
CleanImage(image, container) ==
    IF opts.debug
    THEN UNCHANGED <<log, last>>
    ELSE \E outcome \in PossibleOutcomes :
           /\ log' = Append(log, RemoveInvocation(image, container))
           /\ last' = outcome

\* CleanServiceImage as it would be if clean_job returned the error of a
\* clean_image for a service.
CleanServiceImageReturning ==
    /\ pc = "clean_service_image"
    /\ CleanImage(Job.services[si].container.image, Job.services[si].name)
    /\ failed' = CleanFailed(Job.services[si].name, last')
    /\ IF failed' # failed
       THEN /\ cur' = cur + 1
            /\ si' = 1
            /\ pc' = "for_jobs"
       ELSE /\ si' = si + 1
            /\ pc' = "clean_job"
            /\ cur' = cur
    /\ UNCHANGED <<input, env_vars, jobs_status, services_ok, job_result,
                   run_vars, calls, ret>>

\* clean_job: the image of the service just stopped is removed; a failure is
\* logged, and the loop goes on.
CleanServiceImage ==
    /\ pc = "clean_service_image"
    /\ CleanImage(Job.services[si].container.image, Job.services[si].name)
    /\ failed' = CleanFailed(Job.services[si].name, last')
    /\ si' = si + 1
    /\ pc' = "clean_job"
    /\ UNCHANGED <<input, env_vars, cur, jobs_status, services_ok, job_result,
                   run_vars, calls, ret>>

\* CleanMainImage as it would be if do_jobs returned the error of clean_job.
CleanMainImagePropagating ==
    /\ pc = "clean_job"
    /\ si > Len(Job.services)
    /\ CleanImage(Job.container.image, Main)
    /\ IF ~opts.debug /\ Execute(opts.dry_run, last') = "Err"
       THEN /\ ret' = Err("clean_failed")
            /\ pc' = "exit"
            /\ cur' = cur
       ELSE /\ cur' = cur + 1
            /\ pc' = "for_jobs"
            /\ ret' = ret
    /\ failed' = CleanFailed(Main, last')
    /\ si' = 1
    /\ UNCHANGED <<input, env_vars, jobs_status, services_ok, job_result, run_vars,
                   calls>>

\* CleanMainImage as it would be if do_jobs took a failed job again.
CleanMainImageRetrying ==
    /\ pc = "clean_job"
    /\ si > Len(Job.services)
    /\ CleanImage(Job.container.image, Main)
    /\ failed' = CleanFailed(Main, last')
    /\ cur' = (IF jobs_status[cur] = "Failed" THEN cur ELSE cur + 1)
    /\ si' = 1
    /\ pc' = "for_jobs"
    /\ UNCHANGED <<input, env_vars, jobs_status, services_ok, job_result,
                   run_vars, calls, ret>>

\* clean_job: after the services the main image is removed and the result
\* returned; do_jobs logs an error and goes on to the next job.
CleanMainImage ==
    /\ pc = "clean_job"
    /\ si > Len(Job.services)
    /\ CleanImage(Job.container.image, Main)
    /\ failed' = CleanFailed(Main, last')
    /\ cur' = cur + 1
    /\ si' = 1
    /\ pc' = "for_jobs"
    /\ UNCHANGED <<input, env_vars, jobs_status, services_ok, job_result, run_vars,
                   calls, ret>>

Next ==
    \/ DoWorkflow
    \/ VisitJob
    \/ CheckNeeds
    \/ ReturnStatus
    \/ DoJob
    \/ PrepareService
    \/ ServicesDone
    \/ PrepareMain
    \/ CreateVolume
    \/ RunContainer
    \/ JobDone
    \/ StopService
    \/ CleanServiceImage
    \/ CleanMainImage

Spec == Init /\ [][Next]_vars

\* The run is single-threaded and every runtime invocation returns: a step
\* that can be taken is taken.
SpecFair == Spec /\ WF_vars(Next)

\* ---------------------------------------------------------------------------
\* The environment of the containers of a job (SpecEnv)
\* ---------------------------------------------------------------------------
\* Keys of the environments.
EnvKeys == {"A", "B"}

\* The values an `env` mapping can have whose values are all v: None, or
\* Some of a map from some of the keys to v.  Each mapping gets a value of
\* its own, so that an entry of an environment tells where it comes from.
EnvChoices(v) == {None} \cup {Some([k \in ks |-> v]) : ks \in SUBSET EnvKeys}

\* The value of the entries of the env of the n-th service.
ServiceValue(n) == [i \in 1..n |-> "s"]

\* The orders in which a HashMap with the keys ks can iterate them.
IterOrders(ks) ==
    {o \in [1..Cardinality(ks) -> ks] : \A i, j \in DOMAIN o : i # j => o[i] # o[j]}

\* merge_from_ref as it would be if the entries the map has were kept.
MergeFromRefKeeping(map, map2) == map @@ map2

\* merge_from_ref: map.extend(map2): every entry of map2 is inserted into map,
\* replacing the entry map has for the key.
MergeFromRef(map, map2) == map2 @@ map

\* do_job: a new HashMap, into which env_inherited and then the env of the
\* container are merged, each if it is Some.
MergedEnv(inherited, own) ==
    LET e1 == IF inherited.some THEN MergeFromRef(<<>>, inherited.map) ELSE <<>>
    IN  IF own.some THEN MergeFromRef(e1, own.map) ELSE e1

\* run_container: one `--env=k=v` argument per entry of env, in the order o
\* in which env.iter() yields the keys.
EnvArgs(e, o) == [i \in DOMAIN o |-> <<"--env=", o[i], "=", e[o[i]]>>]

\* run_container is handed e for the container `name`.
RunWithEnv(name, e) ==
    /\ env' = e
    /\ \E o \in IterOrders(DOMAIN e) :
         run_env' = Append(run_env, [name |-> name, env |-> e, args |-> EnvArgs(e, o)])

InitEnv ==
    /\ env_inherited \in EnvChoices(<<"w">>)
    /\ \E m \in EnvChoices(<<"m">>) :
       \E sv \in [1..MaxEnvServices -> UNION {EnvChoices(ServiceValue(n)) : n \in 1..MaxEnvServices}] :
         /\ \A n \in 1..MaxEnvServices : sv[n] \in EnvChoices(ServiceValue(n))
         /\ container_env = [main |-> m, services |-> sv]
    /\ env = <<>>
    /\ run_env = <<>>
    /\ pc = "services"
    /\ si = 1
    /\ jobs = <<>>
    /\ opts = [dry_run |-> TRUE, debug |-> FALSE, privileged |-> FALSE]
    /\ cur = 1
    /\ jobs_status = <<>>
    /\ services_ok = TRUE
    /\ failed = {}
    /\ job_result = "none"
    /\ is_service = FALSE
    /\ vi = 1
    /\ log = <<>>
    /\ calls = <<>>
    /\ last = "none"
    /\ ret = Running

\* What SpecEnv leaves alone.
env_frame == <<jobs, opts, cur, jobs_status, services_ok, failed, job_result,
               is_service, vi, log, calls, last, ret, env_inherited, container_env>>

\* do_job, for the service the loop is at: its environment is built and the
\* service is run with it.
ServiceEnv ==
    /\ pc = "services"
    /\ si <= Len(container_env.services)
    /\ RunWithEnv(si, MergedEnv(env_inherited, container_env.services[si]))
    /\ si' = si + 1
    /\ pc' = (IF si = Len(container_env.services) THEN "main_image" ELSE "services")
    /\ UNCHANGED env_frame

\* do_job, after the services: the environment of the main container is
\* built and the main container is run with it.
MainEnv ==
    /\ pc = "main_image"
    /\ RunWithEnv(Main, MergedEnv(env_inherited, container_env.main))
    /\ pc' = "job_done"
    /\ UNCHANGED <<env_frame, si>>

NextEnv ==
    \/ ServiceEnv
    \/ MainEnv

SpecEnv == InitEnv /\ [][NextEnv]_vars

\* ---------------------------------------------------------------------------
\* Properties
\* ---------------------------------------------------------------------------
FinalStatus == {"Skipped", "Success", "Failed"}

\* The invocations built for job j, in order.
JobLog(j) == SelectSeq(log, LAMBDA e : e.job = j)

\* Whether function f has been called for job j.
Called(f, j) == \E i \in 1..Len(calls) : calls[i] = <<f, j>>

\* The loop of do_jobs is past the `needs` of job j.
NeedsChecked(j) ==
    j < cur \/ (j = cur /\ pc \notin {"do_workflow", "for_jobs", "check_needs"})

\* The loop of do_jobs is done with job j: it has gone on to the next job, or
\* the run has ended.
Done(j) == j \in DOMAIN jobs_status /\ (j < cur \/ pc = "exit")

\* Job j names in `needs` a job that had status Failed at j's turn.  The names
\* with a status at j's turn are j, which has NoStatus then, and the jobs
\* declared before j.
NeedsFailed(j) ==
    \E i \in 1..Len(jobs[j].needs) :
        /\ jobs[j].needs[i] < j
        /\ jobs_status[jobs[j].needs[i]] = "Failed"

\* C1: a job that names in `needs` a job whose status is Failed when the job
\* is visited ends Skipped, no runtime invocation is built for it, and neither
\* do_job nor clean_job is called for it.
C1_FailedNeedSkips ==
    \A j \in 1..Len(jobs) :
        (NeedsChecked(j) /\ NeedsFailed(j)) =>
            /\ jobs_status[j] = "Skipped"
            /\ JobLog(j) = <<>>
            /\ ~Called("do_job", j)
            /\ ~Called("clean_job", j)

\* A job with a volume has been skipped for a need that is not its first,
\* and the run has ended.
C1_Witness ==
    \E j \in 1..Len(jobs) :
        /\ pc = "exit"
        /\ j \in DOMAIN jobs_status
        /\ jobs_status[j] = "Skipped"
        /\ jobs[j].container.volumes # <<>>
        /\ Len(jobs[j].needs) = 2
        /\ jobs[j].needs[2] < j
        /\ jobs_status[jobs[j].needs[2]] = "Failed"

\* C2 as claimed: clean_job is called for every job do_job was called for,
\* whatever the outcome, once the loop is done with the job.
C2_CleanupForEveryExecutedJob ==
    \A j \in 1..Len(jobs) :
        (Called("do_job", j) /\ Done(j)) => Called("clean_job", j)

\* C3: a failure of do_job for a job that is not continue_on_error ends the
\* run at once with that failure: no status map is returned, clean_job is not
\* called, and no later job gets a status, an invocation or a call.
C3_FailureAborts ==
    /\ \A j \in DOMAIN jobs_status :
         (jobs_status[j] = "Failed" /\ ~jobs[j].continue_on_error) =>
            /\ j = cur
            /\ pc = "exit"
            /\ ret.tag = "Err"
            /\ ret.err \in {"no_image", "service_failed", "preparation_failed",
                            "start_failed"}
            /\ ret.status = <<>>
            /\ ExitCode = 1
    /\ (ret.tag = "Err" /\ ret.err # "no_jobs") =>
            /\ jobs_status[cur] = "Failed"
            /\ ~jobs[cur].continue_on_error
            /\ \A j \in (cur + 1)..Len(jobs) :
                 /\ j \notin DOMAIN jobs_status
                 /\ JobLog(j) = <<>>
                 /\ ~Called("do_job", j)
                 /\ ~Called("clean_job", j)

\* A run has been ended by the failure of a job that other jobs follow.
C3_Witness ==
    /\ ret.tag = "Err"
    /\ ret.err = "start_failed"
    /\ cur < Len(jobs)
    /\ jobs_status[cur] = "Failed"

\* C4: a failure of do_job for a continue_on_error job is recorded Failed and
\* does not end the run; a run in which no job that is not continue_on_error
\* failed returns Ok with a final status for every declared job, and exits
\* with 0.
C4_ContinueOnError ==
    /\ \A j \in 1..Len(jobs) :
         (Called("do_job", j) /\ j \in DOMAIN jobs_status
             /\ jobs_status[j] = "Failed" /\ jobs[j].continue_on_error) =>
            /\ ~(ret.tag = "Err" /\ cur = j)
            /\ Called("clean_job", j)
            /\ cur >= j
    /\ (pc = "exit" /\ jobs # <<>>
          /\ ~\E j \in DOMAIN jobs_status :
                jobs_status[j] = "Failed" /\ ~jobs[j].continue_on_error) =>
            ret.tag = "Ok"
    /\ ret.tag = "Ok" =>
            /\ ret.status = jobs_status
            /\ DOMAIN ret.status = 1..Len(jobs)
            /\ \A j \in 1..Len(jobs) : ret.status[j] \in FinalStatus
            /\ ExitCode = 0

\* A run has returned Ok although one job failed, and the job declared after
\* the failed job has been run.
C4_Witness ==
    /\ ret.tag = "Ok"
    /\ \E j \in 1..Len(jobs) - 1 :
         /\ ret.status[j] = "Failed"
         /\ ret.status[j + 1] = "Success"

\* C5: a job has no status before the loop visits it, gets NoStatus when it
\* is visited, changes once to Skipped, Success or Failed while the loop is at
\* it, and keeps that status whatever happens later.
C5_StatusLifecycle ==
    [][ /\ DOMAIN jobs_status \subseteq 1..cur
        /\ DOMAIN jobs_status' \subseteq 1..cur'
        /\ \A j \in 1..Len(jobs) :
             /\ j \notin DOMAIN jobs_status =>
                  \/ j \notin DOMAIN jobs_status'
                  \/ j = cur /\ pc = "for_jobs" /\ jobs_status'[j] = "NoStatus"
             /\ j \in DOMAIN jobs_status =>
                  /\ j \in DOMAIN jobs_status'
                  /\ jobs_status[j] = "NoStatus" =>
                       \/ jobs_status'[j] = "NoStatus"
                       \/ j = cur /\ jobs_status'[j] \in FinalStatus
                  /\ jobs_status[j] \in FinalStatus =>
                       jobs_status'[j] = jobs_status[j]
                  /\ (j < cur' /\ j \in DOMAIN jobs_status') =>
                       jobs_status'[j] \in FinalStatus ]_vars

\* The job at hand has NoStatus, the job before it has been skipped and the
\* one before that has failed.
C5_Witness ==
    /\ cur = 3
    /\ cur \in DOMAIN jobs_status
    /\ jobs_status[cur] = "NoStatus"
    /\ jobs_status[2] = "Skipped"
    /\ jobs_status[1] = "Failed"

\* The positions in the log of the invocations built for the container
\* `name` of the job at hand with an operation among ops.
Entries(name, ops) ==
    {i \in 1..Len(log) :
        log[i].job = cur /\ log[i].container = name /\ log[i].op \in ops}

\* do_job is running for the job at hand.
InDoJob == pc \in {"services", "main_image", "run_container", "job_done"}

\* do_job is past its loop over the services of the job at hand.
ServiceLoopOver ==
    \/ pc = "services" /\ si > Len(Job.services)
    \/ pc = "main_image"
    \/ pc = "run_container" /\ ~is_service
    \/ pc = "job_done" /\ job_result # "no_image"

\* C6: a service whose preparation or start fails does not keep do_job from
\* attempting every other service (its image is pulled and, if that worked,
\* the service is started), and once a service has failed the main image is not
\* pulled, the main container is not run and the job fails.
C6_ServicesBestEffort ==
    /\ InDoJob => (services_ok <=> failed = {})
    /\ (InDoJob /\ failed # {}) =>
         /\ Entries(Main, {"pull", "volume", "run"}) = {}
         /\ pc \notin {"main_image"}
         /\ pc = "run_container" => is_service
         /\ pc = "job_done" => job_result = "service_failed"
    /\ ServiceLoopOver =>
         \A k \in 1..Len(Job.services) :
            LET s == Job.services[k] IN
            /\ Cardinality(Entries(s.name, {"pull"})) = 1
            /\ <<s.name, "preparation">> \notin failed
                 => Entries(s.name, {"volume", "run"}) # {}
            /\ <<s.name, "preparation">> \in failed
                 => Entries(s.name, {"volume", "run"}) = {}

\* The first of two services could not be prepared, the second has been
\* prepared and started all the same, and do_job has failed.
C6_Witness ==
    /\ pc = "job_done"
    /\ job_result = "service_failed"
    /\ Len(Job.services) = 2
    /\ failed = {<<Job.services[1].name, "preparation">>}
    /\ Entries(Job.services[2].name, {"run"}) # {}

\* C7 as claimed, for the runs that execute their commands: a job without
\* main image that do_job is called for fails, and no runtime invocation is
\* built for it.
C7_NoImageNoInvocation ==
    ~opts.dry_run =>
        \A j \in 1..Len(jobs) :
            (Called("do_job", j) /\ Len(jobs[j].container.image) = 0) =>
                /\ JobLog(j) = <<>>
                /\ Done(j) => jobs_status[j] = "Failed"

\* The invocation built last.
LastInvocation == log[Len(log)]

\* C8 as claimed: when the last command do_job had executed for a job did
\* not succeed, because it could not be launched or because it exited with a
\* failure status, the job is recorded Failed.
C8_CommandFailureFailsJob ==
    ( /\ last \in {"exit_failure", "launch_error"}
      /\ log # <<>>
      /\ LastInvocation.job = cur
      /\ LastInvocation.op \in {"pull", "volume", "run"}
      /\ pc \in {"clean_job", "exit"} ) =>
        jobs_status[cur] = "Failed"

\* No job of the workflow has an empty main image.
AllImagesSet == \A j \in 1..Len(jobs) : Len(jobs[j].container.image) > 0

\* C9 as claimed: under dry_run no command is executed, every visited job
\* with a main image ends Success, no job is Skipped, and do_jobs returns Ok
\* unless a job has no main image.
C9_DryRunAllSuccess ==
    opts.dry_run =>
        /\ last \in {"none", "not_run"}
        /\ \A j \in 1..Len(jobs) :
             Done(j) =>
                /\ Len(jobs[j].container.image) > 0 => jobs_status[j] = "Success"
                /\ jobs_status[j] # "Skipped"
        /\ (pc = "exit" /\ jobs # <<>> /\ AllImagesSet) => ret.tag = "Ok"

\* C9, amended: under dry_run no command is executed and no adapter
\* operation fails; every job with a main image that do_job is called for ends
\* Success; a job is Skipped only for a need that failed for its empty main
\* image; and if no job has an empty main image every job ends Success and
\* do_jobs returns Ok.
C9_DryRun ==
    opts.dry_run =>
        /\ last \in {"none", "not_run"}
        /\ failed = {}
        /\ job_result \in {"none", "Ok", "no_image"}
        /\ \A j \in 1..Len(jobs) :
             Done(j) =>
                /\ (Called("do_job", j) /\ Len(jobs[j].container.image) > 0)
                     => jobs_status[j] = "Success"
                /\ jobs_status[j] = "Skipped" =>
                     \E i \in 1..Len(jobs[j].needs) :
                        /\ jobs[j].needs[i] < j
                        /\ Len(jobs[jobs[j].needs[i]].container.image) = 0
                        /\ jobs_status[jobs[j].needs[i]] = "Failed"
                /\ AllImagesSet => jobs_status[j] = "Success"
        /\ (pc = "exit" /\ jobs # <<>> /\ AllImagesSet) => ret.tag = "Ok"

\* A dry run of two jobs has returned Ok, both Success, one of them with a
\* service that was started.
C9_Witness ==
    /\ opts.dry_run
    /\ ret.tag = "Ok"
    /\ Len(jobs) = 2
    /\ \A j \in 1..Len(jobs) : jobs_status[j] = "Success"
    /\ \E i \in 1..Len(log) : log[i].op = "run" /\ log[i].container # Main

\* C10: a cleanup command that fails leaves every recorded status and the
\* result of the run as they are, and clean_job and do_jobs go on from it as
\* from one that succeeds: to the image of the service just stopped, to the
\* next service, and after the main image to the next job.
C10_CleanupFailureIgnored ==
    [][ ( /\ pc \in {"clean_job", "clean_service_image"}
          /\ log' # log
          /\ last' \in {"exit_failure", "launch_error"} ) =>
        /\ jobs_status' = jobs_status
        /\ ret' = ret
        /\ ret.tag = "Running"
        /\ calls' = calls
        /\ pc = "clean_service_image" =>
             pc' = "clean_job" /\ si' = si + 1 /\ cur' = cur
        /\ (pc = "clean_job" /\ si <= Len(Job.services)) =>
             pc' = "clean_service_image" /\ si' = si /\ cur' = cur
        /\ (pc = "clean_job" /\ si > Len(Job.services)) =>
             pc' = "for_jobs" /\ cur' = cur + 1 ]_vars

\* The removal of the main image of a job that succeeded could not be
\* launched, and the loop is about to take the next job.
C10_Witness ==
    /\ pc = "for_jobs"
    /\ cur <= Len(jobs)
    /\ last = "launch_error"
    /\ log # <<>>
    /\ LastInvocation.op = "rm"
    /\ LastInvocation.job = cur - 1
    /\ jobs_status[cur - 1] = "Success"

\* Job j names in `needs` a job that has no status at the turn of j: a job
\* declared after it.
NeedsMissing(j) == \E i \in 1..Len(jobs[j].needs) : jobs[j].needs[i] > j

\* C11: a name in `needs` without status at the turn of the job neither
\* skips the job nor fails the run: the names after it are still looked up, so
\* the job is skipped if one of them is Failed and handed to do_job otherwise.
C11_MissingNeedIgnored ==
    \A j \in 1..Len(jobs) :
        (NeedsChecked(j) /\ NeedsMissing(j)) =>
            /\ NeedsFailed(j) => jobs_status[j] = "Skipped"
            /\ ~NeedsFailed(j) =>
                 /\ jobs_status[j] # "Skipped"
                 /\ Called("do_job", j)
            /\ (ret.tag = "Err" /\ cur = j) =>
                 /\ Called("do_job", j)
                 /\ jobs_status[j] = "Failed"

\* The run has returned Ok with a job that succeeded although the first of
\* its two needs had no status at its turn; the second had succeeded.
C11_Witness ==
    /\ pc = "exit"
    /\ ret.tag = "Ok"
    /\ \E j \in 1..Len(jobs) :
         /\ Len(jobs[j].needs) = 2
         /\ jobs[j].needs[1] > j
         /\ jobs[j].needs[2] < j
         /\ jobs_status[jobs[j].needs[2]] = "Success"
         /\ jobs_status[j] = "Success"

\* C20: a job is Skipped only for a need whose status is Failed at its turn;
\* needs that are Skipped, Success or NoStatus (the job itself) or have no
\* status do not skip it, so a job that needs only such jobs is handed to
\* do_job.
C20_SkipOnlyForFailedNeed ==
    \A j \in 1..Len(jobs) :
        NeedsChecked(j) =>
            /\ jobs_status[j] = "Skipped" => NeedsFailed(j)
            /\ ~NeedsFailed(j) => Called("do_job", j)
            /\ Called("do_job", j) => jobs_status[j] # "Skipped"

\* A job that needs a Skipped job has been executed.
C20_Witness ==
    \E j \in 1..Len(jobs) :
        /\ NeedsChecked(j)
        /\ Called("do_job", j)
        /\ \E i \in 1..Len(jobs[j].needs) :
             /\ jobs[j].needs[i] < j
             /\ jobs_status[jobs[j].needs[i]] = "Skipped"

\* The map of an optional mapping: the empty one for None.
MapOf(o) == IF o.some THEN o.map ELSE <<>>

\* The map base overlaid by the map top: the entries of top, and those of
\* base whose key top has not.
Overlay(base, top) ==
    [k \in DOMAIN base \cup DOMAIN top |->
        IF k \in DOMAIN top THEN top[k] ELSE base[k]]

\* The env declared by the container `name`.
DeclaredEnv(name) ==
    IF name = Main THEN container_env.main ELSE container_env.services[name]

\* C12: every container, the main one and each service, is run with the
\* inherited env overlaid by its own env, its own value winning on a key both
\* have, and with nothing else: every entry handed to a service carries the
\* value of the inherited env or of that service's own env, never the one of
\* the main container or of another service; and the `--env` arguments are
\* exactly the entries of that environment.
C12_EnvOverlay ==
    \A i \in 1..Len(run_env) :
        LET r == run_env[i]
            own == MapOf(DeclaredEnv(r.name))
        IN  /\ r.env = Overlay(MapOf(env_inherited), own)
            /\ \A k \in DOMAIN r.env :
                 /\ k \in DOMAIN own => r.env[k] = own[k]
                 /\ k \notin DOMAIN own =>
                      k \in DOMAIN MapOf(env_inherited) /\ r.env[k] = <<"w">>
            /\ Len(r.args) = Cardinality(DOMAIN r.env)
            /\ {r.args[a] : a \in DOMAIN r.args}
                 = {<<"--env=", k, "=", r.env[k]>> : k \in DOMAIN r.env}

\* All containers have been run; the inherited env has both keys, the first
\* service declares none, the second service one and the main container the
\* other, and each of the two got its own value for its key and the inherited
\* value for the other.
C12_Witness ==
    /\ pc = "job_done"
    /\ Len(run_env) = MaxEnvServices + 1
    /\ env_inherited = Some([k \in EnvKeys |-> <<"w">>])
    /\ ~container_env.services[1].some
    /\ run_env[1].env = [k \in EnvKeys |-> <<"w">>]
    /\ run_env[2].env = ("A" :> <<"s", "s">>) @@ ("B" :> <<"w">>)
    /\ run_env[Len(run_env)].name = Main
    /\ run_env[Len(run_env)].env = ("A" :> <<"w">>) @@ ("B" :> <<"m">>)

\* The invocation `op` of job j for its container `name`.
InvocationOf(j, op, target, name) ==
    [job |-> j, container |-> name, op |-> op, target |-> target]

\* The invocations by which run_container starts the container c as `name`
\* for job j when every command succeeds: its volumes, then the run.
StartLog(j, name, c) ==
    [i \in 1..Len(c.volumes) |-> InvocationOf(j, "volume", VolumeSource(c.volumes[i]), name)]
    \o <<InvocationOf(j, "run", c.image, name)>>

\* The invocations by which do_job prepares and starts the services svcs of
\* job j, in their order, when every command succeeds.
RECURSIVE ServicesLog(_, _)
ServicesLog(j, svcs) ==
    IF svcs = <<>> THEN <<>>
    ELSE <<InvocationOf(j, "pull", Head(svcs).container.image, Head(svcs).name)>>
         \o StartLog(j, Head(svcs).name, Head(svcs).container)
         \o ServicesLog(j, Tail(svcs))

\* The invocations of clean_image under the options o.
RemoveLog(j, image, name, o) ==
    IF o.debug THEN <<>> ELSE <<InvocationOf(j, "rm", image, name)>>

\* The invocations by which clean_job stops and removes the services svcs of
\* job j, in their order.
RECURSIVE ServicesCleanLog(_, _, _)
ServicesCleanLog(j, svcs, o) ==
    IF svcs = <<>> THEN <<>>
    ELSE <<InvocationOf(j, "stop", Head(svcs).container.image, Head(svcs).name)>>
         \o RemoveLog(j, Head(svcs).container.image, Head(svcs).name, o)
         \o ServicesCleanLog(j, Tail(svcs), o)

\* The invocations of clean_job for job j.
CleanLog(j, job, o) ==
    ServicesCleanLog(j, job.services, o) \o RemoveLog(j, job.container.image, Main, o)

\* The invocations of a run of do_jobs in which every command succeeds, as
\* under dry_run, from job j on, the jobs before it having the given status.
RECURSIVE DryRunFrom(_, _, _, _)
DryRunFrom(js, o, j, status) ==
    IF j > Len(js) THEN <<>>
    ELSE IF Skip(js[j].needs, Insert(status, j, "NoStatus"))
         THEN DryRunFrom(js, o, j + 1, Insert(status, j, "Skipped"))
    ELSE IF Len(js[j].container.image) = 0
         THEN IF js[j].continue_on_error
              THEN CleanLog(j, js[j], o)
                   \o DryRunFrom(js, o, j + 1, Insert(status, j, "Failed"))
              ELSE <<>>
    ELSE ServicesLog(j, js[j].services)
         \o <<InvocationOf(j, "pull", js[j].container.image, Main)>>
         \o StartLog(j, Main, js[j].container)
         \o CleanLog(j, js[j], o)
         \o DryRunFrom(js, o, j + 1, Insert(status, j, "Success"))

\* The sequence of invocations of a dry run of the jobs js under the options
\* o, the services of each job being iterated in the order js gives them.
DryRunLog(js, o) == DryRunFrom(js, o, 1, <<>>)

\* The orders in which the HashMap of the services svcs can iterate them.
ServiceOrders(svcs) ==
    {s \in [1..Len(svcs) -> {svcs[i] : i \in 1..Len(svcs)}] :
        \A i, k \in 1..Len(svcs) : i # k => s[i] # s[k]}

\* The workflow js, with the services of its jobs iterated in every order.
IterationOrders(js) ==
    {w \in [1..Len(js) ->
              UNION {{[js[j] EXCEPT !.services = s] : s \in ServiceOrders(js[j].services)} :
                     j \in 1..Len(js)}] :
        \A j \in 1..Len(js) :
            \E s \in ServiceOrders(js[j].services) : w[j] = [js[j] EXCEPT !.services = s]}

\* A dry run that has ended has issued the invocations DryRunLog gives for
\* the order in which it iterated the services.
DryRunLogIsLog ==
    (opts.dry_run /\ pc = "exit") => log = DryRunLog(jobs, opts)

\* C13 as claimed: a dry run issues the sequence of invocations that every
\* other dry run of the same workflow under the same options issues, whatever
\* the order in which that run iterates the services of a job.
C13_DryRunDeterministic ==
    (opts.dry_run /\ pc = "exit") =>
        \A w \in IterationOrders(jobs) : DryRunLog(w, opts) = log

\* C14: under debug no image is removed in the whole run, neither a main
\* image nor the image of a service: the clean_image calls of clean_job build
\* no command and leave the result of the last command as it is; the services
\* of every job clean_job has run for have been stopped all the same.
C14_DebugKeepsImages ==
    opts.debug =>
        /\ \A i \in 1..Len(log) : log[i].op # "rm"
        /\ pc = "clean_service_image" =>
             /\ log # <<>>
             /\ LastInvocation.op = "stop"
        /\ \A j \in 1..Len(jobs) :
             (Called("clean_job", j) /\ Done(j)) =>
                SelectSeq(JobLog(j), LAMBDA e : e.op = "stop")
                  = [k \in 1..Len(jobs[j].services) |->
                       InvocationOf(j, "stop", jobs[j].services[k].container.image,
                                    jobs[j].services[k].name)]

\* A run under debug that executes its commands has returned Ok after a job
\* with a service, which was stopped.
C14_Witness ==
    /\ opts.debug
    /\ ~opts.dry_run
    /\ pc = "exit"
    /\ ret.tag = "Ok"
    /\ \E i \in 1..Len(log) : log[i].op = "stop"
    /\ \E i \in 1..Len(log) : log[i].op = "run" /\ log[i].container = Main

\* C15: for an empty job mapping do_workflow returns the error of a workflow
\* without jobs; no runtime invocation is built, no status is recorded,
\* neither do_job nor clean_job is called, and the process exits with 1.
C15_NoJobsIsError ==
    jobs = <<>> =>
        /\ log = <<>>
        /\ calls = <<>>
        /\ jobs_status = <<>>
        /\ pc \in {"do_workflow", "exit"}
        /\ pc = "exit" => (ret = Err("no_jobs") /\ ExitCode = 1)

\* do_workflow has returned for an empty job mapping.
C15_Witness ==
    /\ jobs = <<>>
    /\ pc = "exit"
    /\ ret.tag = "Err"

\* The phase of a job an invocation belongs to: the services, the main
\* image, the volumes of the main container, its run, and the cleanup.
Phase(e) ==
    IF e.op \in {"stop", "rm"} THEN 5
    ELSE IF e.container # Main THEN 1
    ELSE IF e.op = "pull" THEN 2
    ELSE IF e.op = "volume" THEN 3
    ELSE 4

\* The container of job j that is called `name`: the main container, or the
\* service of that name.
ContainerNamed(j, name) ==
    IF name = Main THEN jobs[j].container
    ELSE (CHOOSE s \in {jobs[j].services[k] : k \in 1..Len(jobs[j].services)} :
            s.name = name).container

\* C16: the invocations come job after job in declared order, and within a
\* job phase after phase: the services, the main image pull, the main run,
\* and then the stops and image removals; a service is started only after its
\* image was pulled, and the main container only after the main image was.
C16_InvocationOrder ==
    /\ \A a \in 1..(Len(log) - 1) :
         \/ log[a].job < log[a + 1].job
         \/ log[a].job = log[a + 1].job /\ Phase(log[a]) <= Phase(log[a + 1])
    /\ \A b \in 1..Len(log) :
         /\ log[b].job <= cur
         /\ log[b].op \in {"volume", "run"} =>
              \E a \in 1..(b - 1) :
                 log[a] = InvocationOf(log[b].job, "pull",
                                       ContainerNamed(log[b].job, log[b].container).image,
                                       log[b].container)
         /\ (log[b].op = "pull" /\ log[b].container = Main) =>
              \A a \in 1..(b - 1) :
                 log[a].job = log[b].job => log[a].container # Main

\* The run has returned Ok after two jobs; the first has a service, which
\* was pulled, started, stopped and removed around the main container.
C16_Witness ==
    /\ pc = "exit"
    /\ ret.tag = "Ok"
    /\ Len(jobs) = 2
    /\ Len(jobs[1].services) = 1
    /\ Len(JobLog(1)) = 7
    /\ JobLog(2) # <<>>

\* The number of times f has been called for job j.
CallCount(f, j) == Cardinality({i \in 1..Len(calls) : calls[i] = <<f, j>>})

\* C17: every run ends, either past the last job with Ok or at a job that
\* failed and has continue_on_error false (or at once for an empty job
\* mapping); do_job is called at most once for a job, and the main container of
\* a job is run at most once.
C17_Terminates ==
    /\ <>(pc = "exit")
    /\ [](pc = "exit" =>
            \/ ret.tag = "Ok" /\ cur = Len(jobs) + 1
            \/ ret = Err("no_jobs") /\ jobs = <<>>
            \/ /\ ret.tag = "Err"
               /\ cur \in 1..Len(jobs)
               /\ jobs_status[cur] = "Failed"
               /\ ~jobs[cur].continue_on_error
               /\ \A j \in 1..(cur - 1) :
                    jobs_status[j] = "Failed" => jobs[j].continue_on_error)
    /\ [](\A j \in 1..Len(jobs) :
            /\ CallCount("do_job", j) <= 1
            /\ CallCount("clean_job", j) <= 1
            /\ Cardinality({i \in 1..Len(log) :
                   log[i].job = j /\ log[i].op = "run" /\ log[i].container = Main}) <= 1)

\* The run has returned Ok after a job that failed, was not taken again, and
\* a job that ran its main container.
C17_Witness ==
    /\ pc = "exit"
    /\ ret.tag = "Ok"
    /\ Len(jobs) = 2
    /\ jobs_status[1] = "Failed"
    /\ CallCount("do_job", 1) = 1
    /\ jobs_status[2] = "Success"

\* The stops and image removals built for job j so far.
CleanupOf(j) == SelectSeq(JobLog(j), LAMBDA e : e.op \in {"stop", "rm"})

VolRun(j, name) ==
    SelectSeq(log, LAMBDA e : e.job = j /\ e.container = name /\ e.op \in {"volume", "run"})

\* The names of the containers of job j.
ContainerNames(j) ==
    {Main} \cup {jobs[j].services[k].name : k \in 1..Len(jobs[j].services)}

\* The sequence a is the beginning of the sequence b.
IsPrefix(a, b) == Len(a) <= Len(b) /\ a = SubSeq(b, 1, Len(a))

\* run_container creates the volumes of a container in declared order, each
\* named by the part of its specification before the first ":", and runs the
\* container after the last of them; when a volume-create command cannot be
\* launched, run_container returns the error: no further volume is created,
\* the container is not run, and do_job has the start of the container as
\* failed.
VolumesBeforeRun ==
    /\ \A j \in 1..Len(jobs) : \A n \in ContainerNames(j) :
         IsPrefix(VolRun(j, n), StartLog(j, n, ContainerNamed(j, n)))
    /\ \A j \in 1..Len(jobs) :
         (Done(j) /\ jobs_status[j] = "Success") =>
            \A n \in ContainerNames(j) :
               VolRun(j, n) = StartLog(j, n, ContainerNamed(j, n))
    /\ pc = "run_container" =>
         VolRun(cur, RunName) = SubSeq(StartLog(cur, RunName, RunTarget), 1, vi - 1)
    /\ ( /\ last = "launch_error"
         /\ log # <<>>
         /\ LastInvocation.op = "volume"
         /\ LastInvocation.job = cur ) =>
            /\ pc # "run_container"
            /\ Len(VolRun(cur, LastInvocation.container))
                 <= Len(ContainerNamed(cur, LastInvocation.container).volumes)
            /\ \/ pc \in {"clean_job", "exit"} /\ jobs_status[cur] = "Failed"
               \/ IF LastInvocation.container = Main
                  THEN pc = "job_done" /\ job_result = "start_failed"
                  ELSE /\ <<LastInvocation.container, "start">> \in failed
                       /\ ~services_ok

\* C19 as claimed: the volumes of a container are created in declared order
\* under the names before the first ":" and before the run, and when a
\* volume-create command fails, be it that it cannot be launched or that it
\* exits with a failure status, run_container returns an error: no further
\* volume is created and the container is not run.
C19_VolumeFailureStopsRun ==
    /\ \A j \in 1..Len(jobs) : \A n \in ContainerNames(j) :
         IsPrefix(VolRun(j, n), StartLog(j, n, ContainerNamed(j, n)))
    /\ ( /\ last \in {"exit_failure", "launch_error"}
         /\ log # <<>>
         /\ LastInvocation.op = "volume"
         /\ LastInvocation.job = cur ) =>
            /\ pc # "run_container"
            /\ \/ pc \in {"clean_job", "exit"} /\ jobs_status[cur] = "Failed"
               \/ IF LastInvocation.container = Main
                  THEN pc = "job_done" /\ job_result = "start_failed"
                  ELSE /\ <<LastInvocation.container, "start">> \in failed
                       /\ ~services_ok

====
